---- MODULE Spec2Model ----
(***************************************************************************)
(* Model of the scscourt scraper: main() (src/main.py), CourtScraper.run   *)
(* and its case workers (src/scraper.py), and the TokenManager with its    *)
(* two background loops and the CaseProcessor document pipeline            *)
(* (src/core.py).                                                          *)
(*                                                                         *)
(* Threads: the main thread (main -> run -> TokenManager.start -> case     *)
(* pool -> TokenManager.stop), the captcha (replenish) thread, the token   *)
(* refresh thread and one pool worker per submitted case.  Every step that *)
(* reads or writes shared state, or that waits for the network, is one     *)
(* action; the outcome of a network call is chosen with \E.                *)
(***************************************************************************)
EXTENDS Naturals, Integers, Sequences, FiniteSets, TLC

\* ---------------------------------------------------------------- bounds
\* largest configured CAPTCHA_BUFFER_SIZE explored (0 = Queue without limit)
MaxBufferSize == 2

\* largest configured MAX_RETRIES explored
MaxRetries == 2

\* largest configured CASE_WORKERS explored
MaxCaseWorkers == 2

\* most rows of case_ids.csv
MaxRows == 2

\* None / "" / unset: every falsy value of the code is modelled as 0
None == 0

\* Captcha solutions are opaque strings.  Only the identity of the solutions
\* that are alive matters (buffered, held in a local variable, or the one the
\* current token was exchanged from), so a solve returns the least identifier
\* that is not alive: buffer + captcha_code of each loop + current token.
SolutionIds == 1..(MaxBufferSize + 3)

VARIABLES
    \* ---- configuration (ScraperConfig.from_env)
    api_key_set,      \* config.capsolver_api_key is non-empty
    buffer_size,      \* config.captcha_buffer_size
    \* ---- TokenManager
    captcha_buffer,   \* Queue(maxsize=buffer_size), head = next item got
    current_token,    \* None, or the solution id it was exchanged from
    stop_event,       \* _stop_event.is_set()
    prefill_i,        \* start(): loop index i of the pre-fill
    initial_captcha,  \* start(): local initial_captcha
    capPc,            \* _captcha_worker position
    capCode,          \* _captcha_worker local captcha_code
    refPc,            \* _token_refresh_worker position
    refCode,          \* _token_refresh_worker local captcha_code
    new_token,        \* _token_refresh_worker local new_token
    exchanged,        \* history: the alive solutions passed to get_token so far
    \* ---- run configuration and CourtScraper state
    max_retries,      \* config.max_retries
    case_workers,     \* config.case_workers
    case_file,        \* the rows of case_ids.csv, or "missing"
    case_ids,         \* run(): local case_ids
    stats,            \* self.stats
    failed_cases,     \* self.failed_cases
    \* ---- the persistence sink
    stored,           \* the case ids of the worklist whose record is in table "cases"
    \* ---- one pool task per submitted case (index into case_ids)
    casePc,           \* position of the task in _process_single_case
    attempt,          \* loop variable attempt
    case_data,        \* local case_data (the fetched payload)
    save_result,      \* local save_result
    calls,            \* history: external calls made for the task
    \* ---- CaseProcessor.process_case (the call in progress, or the last one)
    docPc,            \* position in process_case: idle, download, inject, returned
    payload,          \* the case_data dict it works on (documents of events, hearings)
    document_ids,     \* local document_ids
    download,         \* one pool task per document id: pc, tries made, result
    collected,        \* tasks whose future the as_completed loop has handled
    document_map,     \* local document_map of _download_documents
    download_called,  \* history: this process_case made a get_document_base64 call
    \* ---- the blocks "with self.stats_lock:" executed step by step (StatsSpec);
    \* ---- stats and failed_cases then hold what the blocks entered add up to
    stats_lock,       \* self.stats_lock: the task that holds it, 0 when free
    lockPc,           \* position of each task in its block: out, load, store, append, exit
    pending,          \* the blocks each task has yet to execute before it goes on
    tmp,              \* the value each task read for stats[key] += 1
    stats_mem,        \* the dict self.stats as the steps of the blocks have left it
    failed_cases_mem, \* the list self.failed_cases as the steps have left it
    \* ---- the blocks "with self.token_lock:" executed step by step (TokenSpec)
    token_lock,       \* self.token_lock: 0 free, -1 the refresh loop, k the task k
    got,              \* what get_token() returned to each task last
    token_during,     \* history: the values of current_token during each task's call
    \* ---- main thread
    mainPc,           \* position of the main thread in main()/run()/start()/stop()
    start_result,     \* history: "pending", then how start() ended: "ok" or "failed"
    exitStatus,       \* process exit status, -1 while running
    stop_calls        \* history: calls of stop() that have returned

tmVars   == <<buffer_size, captcha_buffer, current_token, stop_event, prefill_i,
             initial_captcha, capPc, capCode, refPc, refCode, new_token,
             exchanged>>
mainVars == <<api_key_set, mainPc, start_result, exitStatus, stop_calls>>
cfgVars  == <<max_retries, case_workers, case_file>>
runVars  == <<case_ids, stats, failed_cases>>
caseVars == <<casePc, attempt, case_data, save_result, calls>>
docVars  == <<docPc, payload, document_ids, download, collected, document_map,
             download_called>>
tokVars  == <<token_lock, got, token_during>>
lockVars == <<stats_lock, lockPc, pending, tmp, stats_mem, failed_cases_mem, tokVars>>
vars     == <<tmVars, mainVars, cfgVars, stored, runVars, caseVars, docVars, lockVars>>

\* ------------------------------------------------------ queue.Queue
Range(s) == {s[i] : i \in DOMAIN s}

\* Queue.full(): 0 < maxsize <= qsize()
QueueFull(q, maxsize) == 0 < maxsize /\ maxsize <= Len(q)

\* (mutant of QueuePut) a put that does not wait for room
QueuePutUnbounded(q, maxsize, item, q2) ==
    q2 = Append(q, item)

\* Queue.put(item) without timeout: blocks while full, then appends at the tail
QueuePut(q, maxsize, item, q2) ==
    /\ ~QueueFull(q, maxsize)
    /\ q2 = Append(q, item)

\* Queue.get(): blocks while empty, then removes the head
QueueGet(q, item, q2) ==
    /\ Len(q) > 0
    /\ item = Head(q)
    /\ q2 = Tail(q)

Alive == (Range(captcha_buffer) \cup {capCode, refCode, initial_captcha, current_token})
            \ {None}

FreshSolution == CHOOSE s \in SolutionIds \ Alive :
                    \A t \in SolutionIds \ Alive : s <= t

\* CaptchaService.solve_captcha: a solution, a falsy value, or an exception
SolveOutcomes == {"ok", "none", "raise"}

\* TokenService.get_token: a token, or None (every error is caught inside)
ExchangeOutcomes == {"ok", "none"}

\* ------------------------------------------------------------ main.py
\* main(): lines 13-17, the credential check; sys.exit(1) when it is absent
MainCheckKey ==
    /\ mainPc = "main"
    /\ IF api_key_set
         THEN mainPc' = "construct" /\ exitStatus' = exitStatus
         ELSE mainPc' = "exit" /\ exitStatus' = 1
    /\ UNCHANGED <<tmVars, api_key_set, stop_calls, start_result, cfgVars, stored, runVars, caseVars,
                   docVars, lockVars>>

\* main(): line 21, CourtScraper(config); an exception of a constructor is
\* caught at line 24 and ends the process with sys.exit(1)
MainConstruct ==
    /\ mainPc = "construct"
    /\ \E raised \in BOOLEAN :
         IF raised
           THEN mainPc' = "exit" /\ exitStatus' = 1
           ELSE mainPc' = "start_prefill" /\ exitStatus' = exitStatus
    /\ UNCHANGED <<tmVars, api_key_set, stop_calls, start_result, cfgVars, stored, runVars, caseVars,
                   docVars, lockVars>>

\* -------------------------------------------------- TokenManager.start
\* start(): lines 35-41, one iteration of the pre-fill loop.  An exception of
\* solve_captcha leaves start() and is caught by run() at line 89.
StartPrefill ==
    /\ mainPc = "start_prefill"
    /\ prefill_i < buffer_size
    /\ \E outcome \in SolveOutcomes :
         CASE outcome = "ok" ->
                /\ QueuePut(captcha_buffer, buffer_size, FreshSolution, captcha_buffer')
                /\ prefill_i' = prefill_i + 1
                /\ UNCHANGED <<mainPc, start_result>>
           [] outcome = "none" ->
                /\ prefill_i' = prefill_i + 1
                /\ UNCHANGED <<captcha_buffer, mainPc, start_result>>
           [] outcome = "raise" ->
                /\ mainPc' = "stop"
                /\ start_result' = "failed"
                /\ UNCHANGED <<captcha_buffer, prefill_i>>
    /\ UNCHANGED <<exchanged, buffer_size, current_token, stop_event, initial_captcha,
                   capPc, capCode, refPc, refCode, new_token, api_key_set, stop_calls, exitStatus,
                   cfgVars, stored, runVars, caseVars, docVars, lockVars>>

\* start(): line 43, captcha_buffer.get() without timeout
StartTake ==
    /\ mainPc = "start_prefill"
    /\ prefill_i >= buffer_size
    /\ QueueGet(captcha_buffer, initial_captcha', captcha_buffer')
    /\ mainPc' = "start_exchange"
    /\ UNCHANGED <<exchanged, buffer_size, current_token, stop_event, prefill_i,
                   capPc, capCode, refPc, refCode, new_token, api_key_set, stop_calls, start_result, exitStatus,
                   cfgVars, stored, runVars, caseVars, docVars, lockVars>>

\* (mutant of StartExchange) the threads are started before the result of
\* the exchange is tested
StartExchangeThreadsFirst ==
    /\ mainPc = "start_exchange"
    /\ \E outcome \in ExchangeOutcomes :
         IF outcome = "ok"
           THEN /\ current_token' = initial_captcha
                /\ mainPc' = "load"
                /\ start_result' = "ok"
           ELSE /\ current_token' = None
                /\ mainPc' = "stop"
                /\ start_result' = "failed"
    /\ capPc' = "loop"
    /\ refPc' = "loop"
    /\ initial_captcha' = None
    /\ UNCHANGED <<buffer_size, captcha_buffer, stop_event, prefill_i,
                   capCode, refCode, new_token, api_key_set, stop_calls, exitStatus,
                   cfgVars, stored, runVars, caseVars, docVars, lockVars>>
    /\ exchanged' = (exchanged \cup {initial_captcha}) \cap Alive'

\* (mutant of StartExchange) the raise of line 47 is missing: start() returns
\* and run() goes on although no token was obtained
StartExchangeNoRaise ==
    /\ mainPc = "start_exchange"
    /\ \E outcome \in ExchangeOutcomes :
         /\ current_token' = IF outcome = "ok" THEN initial_captcha ELSE None
         /\ start_result' = IF outcome = "ok" THEN "ok" ELSE "failed"
    /\ capPc' = "loop"
    /\ refPc' = "loop"
    /\ mainPc' = "load"
    /\ initial_captcha' = None
    /\ UNCHANGED <<buffer_size, captcha_buffer, stop_event, prefill_i,
                   capCode, refCode, new_token, api_key_set, stop_calls, exitStatus,
                   cfgVars, stored, runVars, caseVars, docVars, lockVars>>
    /\ exchanged' = (exchanged \cup {initial_captcha}) \cap Alive'

\* start(): lines 44-57, the initial exchange; RuntimeError when it gave no
\* token, otherwise both background threads are started.  exchanged records
\* the solution passed to get_token while that solution is still referenced.
StartExchange ==
    /\ mainPc = "start_exchange"
    /\ \E outcome \in ExchangeOutcomes :
         IF outcome = "ok"
           THEN /\ current_token' = initial_captcha
                /\ capPc' = "loop"
                /\ refPc' = "loop"
                /\ mainPc' = "load"
                /\ start_result' = "ok"
           ELSE /\ current_token' = None
                /\ mainPc' = "stop"
                /\ start_result' = "failed"
                /\ UNCHANGED <<capPc, refPc>>
    /\ initial_captcha' = None
    /\ UNCHANGED <<buffer_size, captcha_buffer, stop_event, prefill_i,
                   capCode, refCode, new_token, api_key_set, stop_calls, exitStatus,
                   cfgVars, stored, runVars, caseVars, docVars, lockVars>>
    /\ exchanged' = (exchanged \cup {initial_captcha}) \cap Alive'

\* --------------------------------------------------- TokenManager.stop
\* stop(): line 61
StopSet ==
    /\ mainPc = "stop"
    /\ stop_event' = TRUE
    /\ mainPc' = "join"
    /\ UNCHANGED <<exchanged, buffer_size, captcha_buffer, current_token, prefill_i, initial_captcha,
                   capPc, capCode, refPc, refCode, new_token, api_key_set, stop_calls, start_result, exitStatus,
                   cfgVars, stored, runVars, caseVars, docVars, lockVars>>

\* (mutant of StopJoin) the joins have no timeout: stop() waits for both loops
StopJoinNoTimeout ==
    /\ mainPc = "join"
    /\ capPc \in {"idle", "done"} /\ refPc \in {"idle", "done"}
    /\ mainPc' = "exit"
    /\ exitStatus' = 0
    /\ stop_calls' = stop_calls + 1
    /\ UNCHANGED <<tmVars, api_key_set, start_result, cfgVars, stored, runVars, caseVars,
                   docVars, lockVars>>

\* stop(): lines 62-66, join(timeout=5) of each started thread returns when
\* the thread has ended or when the timeout has elapsed; then run() prints
\* the summary and main() returns: exit status 0
StopJoin ==
    /\ mainPc = "join"
    /\ mainPc' = "exit"
    /\ exitStatus' = 0
    /\ stop_calls' = stop_calls + 1
    /\ UNCHANGED <<tmVars, api_key_set, start_result, cfgVars, stored, runVars, caseVars,
                   docVars, lockVars>>

\* calls of stop() a caller of the Token Manager makes one after the other
MaxStopCalls == 2

\* stop() returns as in StopJoin and its caller calls stop() again
StopAgain ==
    /\ ENABLED StopJoin
    /\ stop_calls + 1 < MaxStopCalls
    /\ stop_calls' = stop_calls + 1
    /\ mainPc' = "stop"
    /\ UNCHANGED <<tmVars, api_key_set, start_result, exitStatus, cfgVars, stored, runVars,
                   caseVars, docVars, lockVars>>

\* -------------------------------------- TokenManager._captcha_worker
\* line 73: while not self._stop_event.is_set()
CaptchaLoop ==
    /\ capPc = "loop"
    /\ capPc' = IF stop_event THEN "done" ELSE "check"
    /\ UNCHANGED <<exchanged, buffer_size, captcha_buffer, current_token, stop_event, prefill_i,
                   initial_captcha, capCode, refPc, refCode, new_token, mainVars,
                   cfgVars, stored, runVars, caseVars, docVars, lockVars>>

\* line 75: if not self.captcha_buffer.full()  (else: sleep(5), line 84)
CaptchaCheckFull ==
    /\ capPc = "check"
    /\ capPc' = IF QueueFull(captcha_buffer, buffer_size) THEN "sleep" ELSE "solve"
    /\ UNCHANGED <<exchanged, buffer_size, captcha_buffer, current_token, stop_event, prefill_i,
                   initial_captcha, capCode, refPc, refCode, new_token, mainVars,
                   cfgVars, stored, runVars, caseVars, docVars, lockVars>>

\* (mutant of CaptchaSolve) a failed solve ends the loop
CaptchaSolveExitOnFailure ==
    /\ capPc = "solve"
    /\ \E outcome \in SolveOutcomes :
         IF outcome = "ok"
           THEN capCode' = FreshSolution /\ capPc' = "put"
           ELSE capCode' = None /\ capPc' = "done"
    /\ UNCHANGED <<exchanged, buffer_size, captcha_buffer, current_token, stop_event, prefill_i,
                   initial_captcha, refPc, refCode, new_token, mainVars,
                   cfgVars, stored, runVars, caseVars, docVars, lockVars>>

\* lines 76-77, 80-82, 85-87: solve_captcha(); a falsy result and an
\* exception both lead to sleep(10)
CaptchaSolve ==
    /\ capPc = "solve"
    /\ \E outcome \in SolveOutcomes :
         IF outcome = "ok"
           THEN capCode' = FreshSolution /\ capPc' = "put"
           ELSE capCode' = None /\ capPc' = "sleep"
    /\ UNCHANGED <<exchanged, buffer_size, captcha_buffer, current_token, stop_event, prefill_i,
                   initial_captcha, refPc, refCode, new_token, mainVars,
                   cfgVars, stored, runVars, caseVars, docVars, lockVars>>

\* line 78: self.captcha_buffer.put(captcha_code)
CaptchaPut ==
    /\ capPc = "put"
    /\ QueuePut(captcha_buffer, buffer_size, capCode, captcha_buffer')
    /\ capCode' = None
    /\ capPc' = "loop"
    /\ UNCHANGED <<exchanged, buffer_size, current_token, stop_event, prefill_i,
                   initial_captcha, refPc, refCode, new_token, mainVars,
                   cfgVars, stored, runVars, caseVars, docVars, lockVars>>

\* lines 82, 84, 87: time.sleep returns, back to the loop head
CaptchaSleep ==
    /\ capPc = "sleep"
    /\ capPc' = "loop"
    /\ UNCHANGED <<exchanged, buffer_size, captcha_buffer, current_token, stop_event, prefill_i,
                   initial_captcha, capCode, refPc, refCode, new_token, mainVars,
                   cfgVars, stored, runVars, caseVars, docVars, lockVars>>

\* ---------------------------------- TokenManager._token_refresh_worker
\* line 90: while not self._stop_event.is_set()
RefreshLoop ==
    /\ refPc = "loop"
    /\ refPc' = IF stop_event THEN "done" ELSE "sleep"
    /\ UNCHANGED <<exchanged, buffer_size, captcha_buffer, current_token, stop_event, prefill_i,
                   initial_captcha, capPc, capCode, refCode, new_token, mainVars,
                   cfgVars, stored, runVars, caseVars, docVars, lockVars>>

\* lines 91-94: time.sleep(refresh_interval) returns; break when stopped
RefreshWake ==
    /\ refPc = "sleep"
    /\ refPc' = IF stop_event THEN "done" ELSE "take"
    /\ UNCHANGED <<exchanged, buffer_size, captcha_buffer, current_token, stop_event, prefill_i,
                   initial_captcha, capPc, capCode, refCode, new_token, mainVars,
                   cfgVars, stored, runVars, caseVars, docVars, lockVars>>

\* line 99: captcha_buffer.get(timeout=60) returns an item
RefreshTake ==
    /\ refPc = "take"
    /\ QueueGet(captcha_buffer, refCode', captcha_buffer')
    /\ refPc' = "exchange"
    /\ UNCHANGED <<exchanged, buffer_size, current_token, stop_event, prefill_i,
                   initial_captcha, capPc, capCode, new_token, mainVars,
                   cfgVars, stored, runVars, caseVars, docVars, lockVars>>

\* (mutant of RefreshTakeTimeout) queue.Empty is not caught: the loop ends
RefreshTakeTimeoutFatal ==
    /\ refPc = "take"
    /\ Len(captcha_buffer) = 0
    /\ refPc' = "done"
    /\ UNCHANGED <<exchanged, buffer_size, captcha_buffer, current_token, stop_event, prefill_i,
                   initial_captcha, capPc, capCode, refCode, new_token, mainVars,
                   cfgVars, stored, runVars, caseVars, docVars, lockVars>>

\* line 99: the buffer stayed empty for 60 s: get raises queue.Empty, which
\* line 110 catches
RefreshTakeTimeout ==
    /\ refPc = "take"
    /\ Len(captcha_buffer) = 0
    /\ refPc' = "except"
    /\ UNCHANGED <<exchanged, buffer_size, captcha_buffer, current_token, stop_event, prefill_i,
                   initial_captcha, capPc, capCode, refCode, new_token, mainVars,
                   cfgVars, stored, runVars, caseVars, docVars, lockVars>>

\* lines 110-111: the handler logs the error; the while loop goes on
RefreshExcept ==
    /\ refPc = "except"
    /\ refPc' = "loop"
    /\ UNCHANGED <<exchanged, buffer_size, captcha_buffer, current_token, stop_event, prefill_i,
                   initial_captcha, capPc, capCode, refCode, new_token, mainVars,
                   cfgVars, stored, runVars, caseVars, docVars, lockVars>>

\* line 100: new_token = self.token_service.get_token(captcha_code)
RefreshExchange ==
    /\ refPc = "exchange"
    /\ \E outcome \in ExchangeOutcomes :
         new_token' = IF outcome = "ok" THEN refCode ELSE None
    /\ refPc' = "assign"
    /\ UNCHANGED <<buffer_size, captcha_buffer, current_token, stop_event, prefill_i,
                   initial_captcha, capPc, capCode, refCode, mainVars,
                   cfgVars, stored, runVars, caseVars, docVars, lockVars>>
    /\ exchanged' = exchanged \cup {refCode}

\* (mutant of RefreshAssign) the test of line 102 is missing: whatever the
\* exchange returned becomes the current token
RefreshAssignAlways ==
    /\ refPc = "assign"
    /\ current_token' = new_token
    /\ refCode' = None
    /\ refPc' = "loop"
    /\ new_token' = None
    /\ UNCHANGED <<buffer_size, captcha_buffer, stop_event, prefill_i,
                   initial_captcha, capPc, capCode, mainVars,
                   cfgVars, stored, runVars, caseVars, docVars, lockVars>>
    /\ exchanged' = exchanged \cap Alive'

\* (mutant of RefreshAssign) line 108 is missing: after a failed exchange the
\* solution is dropped
RefreshAssignDiscard ==
    /\ refPc = "assign"
    /\ IF new_token # None
         THEN current_token' = new_token
         ELSE current_token' = current_token
    /\ refCode' = None
    /\ refPc' = "loop"
    /\ new_token' = None
    /\ UNCHANGED <<buffer_size, captcha_buffer, stop_event, prefill_i,
                   initial_captcha, capPc, capCode, mainVars,
                   cfgVars, stored, runVars, caseVars, docVars, lockVars>>
    /\ exchanged' = exchanged \cap Alive'

\* lines 102-107: if new_token: the current token is replaced under the
\* lock; else the loop goes on to put captcha_code back
RefreshAssign ==
    /\ refPc = "assign"
    /\ IF new_token # None
         THEN /\ current_token' = new_token
              /\ refCode' = None
              /\ refPc' = "loop"
         ELSE /\ refPc' = "put"
              /\ UNCHANGED <<current_token, refCode>>
    /\ new_token' = None
    /\ UNCHANGED <<buffer_size, captcha_buffer, stop_event, prefill_i,
                   initial_captcha, capPc, capCode, mainVars,
                   cfgVars, stored, runVars, caseVars, docVars, lockVars>>
    /\ exchanged' = exchanged \cap Alive'

\* line 108: self.captcha_buffer.put(captcha_code)
RefreshRequeue ==
    /\ refPc = "put"
    /\ QueuePut(captcha_buffer, buffer_size, refCode, captcha_buffer')
    /\ refCode' = None
    /\ refPc' = "loop"
    /\ UNCHANGED <<exchanged, buffer_size, current_token, stop_event, prefill_i,
                   initial_captcha, capPc, capCode, new_token, mainVars,
                   cfgVars, stored, runVars, caseVars, docVars, lockVars>>

\* ------------------------------------------------ CourtScraper (run)
\* a row of case_ids.csv, given by its stripped first field: "" is a blank
\* row, otherwise the case id; two ids allow equal and different rows
CaseIdNames == {"A", "B"}
Rows == {""} \cup CaseIdNames

RECURSIVE SeqsUpTo(_, _)
SeqsUpTo(S, n) ==
    IF n = 0 THEN {<<>>}
    ELSE LET shorter == SeqsUpTo(S, n - 1)
         IN  shorter \cup {Append(q, x) : q \in shorter, x \in S}

CaseFiles == SeqsUpTo(Rows, MaxRows)

NonBlank(row) == row # ""

\* _load_case_ids: the first field of every non-blank row, in file order
LoadCaseIds(rows) == SelectSeq(rows, NonBlank)

Tasks == DOMAIN case_ids

InitStats == [total |-> 0, success |-> 0, failed |-> 0, skipped |-> 0,
              total_documents |-> 0, documents_downloaded |-> 0,
              documents_failed_download |-> 0, documents_uploaded |-> 0,
              documents_failed_upload |-> 0]

\* Python values the case worker handles: the fetched response (a dict with
\* nkeys top-level keys, whose "data" may carry a caseNumber), a str, or None
NoneValue       == [kind |-> "none", nkeys |-> 0, number |-> FALSE]
StrValue        == [kind |-> "str",  nkeys |-> 0, number |-> FALSE]
DictValue(n, c) == [kind |-> "dict", nkeys |-> n, number |-> c]

\* CaseService.get_case_data: the response dict ("result" and "data", with or
\* without further keys), or None on any failure
FetchResults == {NoneValue} \cup {DictValue(n, c) : n \in {2, 3}, c \in BOOLEAN}

\* CaseProcessor.process_case returns case_data itself (core.py lines 127, 137)
ProcessCase(cd) == cd

\* "processed_case, doc_stats = <value>": iterating a dict yields its keys, so
\* the assignment succeeds only for a dict of exactly two keys and then binds
\* two key strings; any other length raises ValueError
UnpackRaises(v) == ~(v.kind = "dict" /\ v.nkeys = 2)
UnpackFirst(v)  == StrValue
UnpackSecond(v) == StrValue

\* SupabaseRepository.save_case(arg): arg.get(...) raises inside the try for
\* anything but a dict, and the except returns success False; for a dict with
\* a case number the writes may succeed or fail
SaveResults(arg) ==
    IF arg.kind = "dict" /\ arg.number THEN BOOLEAN ELSE {FALSE}

\* save_case(arg) gets as far as _save_case_info: arg is a dict with a case number
SavesRecord(arg) == arg.kind = "dict" /\ arg.number

\* doc_stats["total"] (scraper.py line 177) raises TypeError on a str
SubscriptRaises(v) == v.kind # "dict"

NoCalls == [token |-> 0, fetch |-> 0, nonumber |-> 0, exists |-> 0, present |-> 0,
            process |-> 0, save |-> 0]

Called(k, what) == calls' = [calls EXCEPT ![k][what] = @ + 1]

\* the locals of task k are bound to a (attempt), cd (case_data), sr (save_result)
SetLocals(k, a, cd, sr) ==
    /\ attempt' = [attempt EXCEPT ![k] = a]
    /\ case_data' = [case_data EXCEPT ![k] = cd]
    /\ save_result' = [save_result EXCEPT ![k] = sr]

\* the task goes on to position pc within the same attempt
Goto(k, pc, cd, sr) ==
    /\ casePc' = [casePc EXCEPT ![k] = pc]
    /\ SetLocals(k, attempt[k], cd, sr)

\* _process_single_case returns: its locals are gone
Return(k) ==
    /\ casePc' = [casePc EXCEPT ![k] = "done"]
    /\ SetLocals(k, 0, NoneValue, FALSE)

\* (mutant of MarkFailed) the append to failed_cases is missing
MarkFailedNoList(k) ==
    /\ stats' = [stats EXCEPT !.failed = @ + 1]
    /\ failed_cases' = failed_cases
    /\ Return(k)

\* with self.stats_lock: stats["failed"] += 1; failed_cases.append(case_id);
\* then return (or the end of the last iteration)
MarkFailed(k) ==
    /\ stats' = [stats EXCEPT !.failed = @ + 1]
    /\ failed_cases' = Append(failed_cases, case_ids[k])
    /\ Return(k)

\* (mutant of RetryOrFail) the budget test admits one attempt too many
RetryOrFailOneMore(k, cd, sr) ==
    IF attempt[k] < max_retries
      THEN /\ casePc' = [casePc EXCEPT ![k] = "token"]
           /\ SetLocals(k, attempt[k] + 1, cd, sr)
           /\ UNCHANGED <<stats, failed_cases>>
      ELSE MarkFailed(k)

\* the attempt failed: "continue" (or fall out of the except clause) into the
\* next attempt while attempt < max_retries - 1, else the case is marked failed
RetryOrFail(k, cd, sr) ==
    IF attempt[k] < max_retries - 1
      THEN /\ casePc' = [casePc EXCEPT ![k] = "token"]
           /\ SetLocals(k, attempt[k] + 1, cd, sr)
           /\ UNCHANGED <<stats, failed_cases>>
      ELSE MarkFailed(k)

\* run(): lines 80-81, the worklist is read and counted; an unreadable file
\* raises, which run() catches at line 89.  _process_cases lines 113-117:
\* every case id is submitted to the pool
RunLoad ==
    /\ mainPc = "load"
    /\ \E readable \in BOOLEAN :
         IF readable
           THEN /\ case_ids' = LoadCaseIds(case_file)
                /\ stats' = [stats EXCEPT !.total = Len(case_ids')]
                /\ casePc' = [k \in DOMAIN case_ids' |-> "queued"]
                /\ attempt' = [k \in DOMAIN case_ids' |-> 0]
                /\ case_data' = [k \in DOMAIN case_ids' |-> NoneValue]
                /\ save_result' = [k \in DOMAIN case_ids' |-> FALSE]
                /\ calls' = [k \in DOMAIN case_ids' |-> NoCalls]
                /\ mainPc' = "process"
           ELSE /\ mainPc' = "stop"
                /\ UNCHANGED <<case_ids, stats, caseVars>>
    /\ UNCHANGED <<tmVars, api_key_set, stop_calls, start_result, exitStatus, cfgVars, stored, failed_cases,
                   docVars, lockVars>>

\* _process_cases: lines 119-126 and the end of the with block; no task raises
\* (every Exception is caught at scraper.py line 200), so the loop only waits
RunPoolJoin ==
    /\ mainPc = "process"
    /\ \A k \in Tasks : casePc[k] = "done"
    /\ mainPc' = "stop"
    /\ UNCHANGED <<tmVars, api_key_set, stop_calls, start_result, exitStatus, cfgVars, stored, runVars,
                   caseVars, docVars, lockVars>>

\* ------------------------------------ CourtScraper._process_single_case
Running == {k \in Tasks : casePc[k] \notin {"queued", "done"}}

\* a pool thread takes the oldest submitted task; line 129: the for loop over
\* range(max_retries) has no iteration when max_retries <= 0
CaseBegin(k) ==
    /\ mainPc = "process"
    /\ casePc[k] = "queued"
    /\ Cardinality(Running) < case_workers
    /\ \A j \in Tasks : j < k => casePc[j] # "queued"
    /\ casePc' = [casePc EXCEPT ![k] = IF max_retries > 0 THEN "token" ELSE "done"]
    /\ UNCHANGED <<tmVars, mainVars, cfgVars, stored, runVars, attempt, case_data,
                   save_result, calls>>

\* lines 131-142: token = self.token_manager.get_token()
CaseGetToken(k) ==
    /\ casePc[k] = "token"
    /\ Called(k, "token")
    /\ IF current_token = None
         THEN RetryOrFail(k, case_data[k], save_result[k])
         ELSE /\ Goto(k, "fetch", case_data[k], save_result[k])
              /\ UNCHANGED <<stats, failed_cases>>
    /\ UNCHANGED <<tmVars, mainVars, cfgVars, stored, case_ids>>

\* (mutant of CaseFetch) the return of line 164 is missing: a payload
\* without case number is retried like a failed fetch
CaseFetchRetryNoNumber(k) ==
    /\ casePc[k] = "fetch"
    /\ \E r \in FetchResults :
         /\ calls' = [calls EXCEPT ![k].fetch = @ + 1,
                                   ![k].nonumber = @ + (IF r.kind = "dict" /\ ~r.number
                                                          THEN 1 ELSE 0)]
         /\ IF r.kind = "none" \/ ~r.number
              THEN RetryOrFail(k, r, save_result[k])
              ELSE /\ Goto(k, "exists", r, save_result[k])
                   /\ UNCHANGED <<stats, failed_cases>>
    /\ UNCHANGED <<tmVars, mainVars, cfgVars, stored, case_ids>>

\* lines 144-164: the fetch, the retry when it gave nothing, the immediate
\* failure when the payload has no case number.  calls[k].nonumber counts
\* the fetches that returned a payload without case number.
CaseFetch(k) ==
    /\ casePc[k] = "fetch"
    /\ \E r \in FetchResults :
         /\ calls' = [calls EXCEPT ![k].fetch = @ + 1,
                                   ![k].nonumber = @ + (IF r.kind = "dict" /\ ~r.number
                                                          THEN 1 ELSE 0)]
         /\ IF r.kind = "none"
              THEN RetryOrFail(k, r, save_result[k])
              ELSE IF ~r.number
                THEN MarkFailed(k)
                ELSE /\ Goto(k, "exists", r, save_result[k])
                     /\ UNCHANGED <<stats, failed_cases>>
    /\ UNCHANGED <<tmVars, mainVars, cfgVars, stored, case_ids>>

\* SupabaseRepository.case_exists: whether the query finds a record; False
\* also when the query raises (database.py lines 41-43)
CaseExistsResults(id) == IF id \in stored THEN BOOLEAN ELSE {FALSE}

\* (mutant of CaseExists) the return of line 170 is missing: a case that is
\* already present is counted skipped and processed all the same
CaseExistsNoSkip(k) ==
    /\ casePc[k] = "exists"
    /\ \E exists \in CaseExistsResults(case_ids[k]) :
         /\ calls' = [calls EXCEPT ![k].exists = @ + 1,
                                   ![k].present = @ + (IF exists THEN 1 ELSE 0)]
         /\ stats' = IF exists THEN [stats EXCEPT !.skipped = @ + 1] ELSE stats
         /\ Goto(k, "process", case_data[k], save_result[k])
    /\ UNCHANGED <<tmVars, mainVars, cfgVars, stored, case_ids, failed_cases>>

\* lines 166-170: the existence check; a present case is counted skipped.
\* calls[k].present counts the checks that returned True.
CaseExists(k) ==
    /\ casePc[k] = "exists"
    /\ \E exists \in CaseExistsResults(case_ids[k]) :
         /\ calls' = [calls EXCEPT ![k].exists = @ + 1,
                                   ![k].present = @ + (IF exists THEN 1 ELSE 0)]
         /\ IF exists
              THEN /\ stats' = [stats EXCEPT !.skipped = @ + 1]
                   /\ Return(k)
              ELSE /\ Goto(k, "process", case_data[k], save_result[k])
                   /\ stats' = stats
    /\ UNCHANGED <<tmVars, mainVars, cfgVars, stored, case_ids, failed_cases>>

\* line 172: processed_case, doc_stats = self.case_processor.process_case(...)
\* a ValueError of the assignment is caught at line 200
CaseProcess(k) ==
    /\ casePc[k] = "process"
    /\ Called(k, "process")
    /\ IF UnpackRaises(ProcessCase(case_data[k]))
         THEN RetryOrFail(k, case_data[k], save_result[k])
         ELSE /\ Goto(k, "save", case_data[k], save_result[k])
              /\ UNCHANGED <<stats, failed_cases>>
    /\ UNCHANGED <<tmVars, mainVars, cfgVars, stored, case_ids>>

\* (mutant of CaseSave) save_case is handed the payload: it writes the case
\* record and fails at a later write
CaseSavePartial(k) ==
    /\ casePc[k] = "save"
    /\ Called(k, "save")
    /\ Goto(k, "account", case_data[k], FALSE)
    /\ stored' = stored \cup {case_ids[k]}
    /\ UNCHANGED <<tmVars, mainVars, cfgVars, runVars>>

\* line 174: save_result = self.repository.save_case(processed_case); the
\* case record is the first thing save_case writes (database.py line 26), and
\* it writes nothing for an argument that is no dict with a case number
CaseSave(k) ==
    /\ casePc[k] = "save"
    /\ Called(k, "save")
    /\ \E ok \in SaveResults(UnpackFirst(ProcessCase(case_data[k]))) :
         Goto(k, "account", case_data[k], ok)
    /\ stored' = IF SavesRecord(UnpackFirst(ProcessCase(case_data[k])))
                   THEN stored \cup {case_ids[k]}
                   ELSE stored
    /\ UNCHANGED <<tmVars, mainVars, cfgVars, runVars>>

\* (mutant of CaseAccount) lines 177-181 add the counts of the pipeline run
\* of every attempt, and the outcome follows save_result
CaseAccountAddsDocuments(k) ==
    /\ casePc[k] = "account"
    /\ IF save_result[k]
         THEN /\ stats' = [stats EXCEPT
                             !.total_documents = @ + Len(document_ids),
                             !.success = @ + 1]
              /\ Return(k)
              /\ UNCHANGED failed_cases
         ELSE IF attempt[k] < max_retries - 1
           THEN /\ stats' = [stats EXCEPT
                               !.total_documents = @ + Len(document_ids)]
                /\ casePc' = [casePc EXCEPT ![k] = "token"]
                /\ SetLocals(k, attempt[k] + 1, case_data[k], save_result[k])
                /\ UNCHANGED failed_cases
           ELSE /\ stats' = [stats EXCEPT
                               !.total_documents = @ + Len(document_ids),
                               !.failed = @ + 1]
                /\ failed_cases' = Append(failed_cases, case_ids[k])
                /\ Return(k)
    /\ UNCHANGED <<tmVars, mainVars, cfgVars, stored, case_ids, calls>>

\* lines 176-208: the document counters are added under the lock, then the
\* case is counted success, or retried, or counted failed; a TypeError of
\* doc_stats["total"] is caught at line 200
CaseAccount(k) ==
    /\ casePc[k] = "account"
    /\ IF SubscriptRaises(UnpackSecond(ProcessCase(case_data[k])))
         THEN RetryOrFail(k, case_data[k], save_result[k])
         ELSE IF save_result[k]
           THEN /\ stats' = [stats EXCEPT !.success = @ + 1]
                /\ Return(k)
                /\ UNCHANGED failed_cases
           ELSE RetryOrFail(k, case_data[k], save_result[k])
    /\ UNCHANGED <<tmVars, mainVars, cfgVars, stored, case_ids, calls>>

\* ------------------------------------------ CaseProcessor.process_case
\* most document entries under the events, and under the hearings, of a payload
MaxDocs == 1

\* config.document_workers, the size of the download pool (default)
DocumentWorkers == 5

\* document ids and downloaded contents are opaque strings: two of each allow
\* equal and different ones
DocumentIds == {1, 2}
Contents == {11, 12}

\* an entry of some "documents" list as fetched: a documentId (or none), and
\* no pdf_base64 key yet
DocRef(id) == [documentId |-> id, pdf_base64 |-> None]

DocLists == SeqsUpTo({DocRef(id) : id \in DocumentIds \cup {None}}, MaxDocs)

\* one of the two loops of _extract_document_ids: the truthy documentIds
RECURSIVE IdsOf(_)
IdsOf(refs) ==
    IF refs = <<>> THEN <<>>
    ELSE (IF Head(refs).documentId # None THEN <<Head(refs).documentId>> ELSE <<>>)
            \o IdsOf(Tail(refs))

\* _extract_document_ids: events first, then hearings, duplicates kept
ExtractDocumentIds(p) == IdsOf(p.events) \o IdsOf(p.hearings)

\* the fetched dict with n top-level keys: the document entries of
\* data.caseEvents[*].documents and of data.caseHearings[*].documents, in
\* order.  The ids being opaque, the first id of a payload is taken to be 1.
Payloads(n) ==
    {p \in {[nkeys |-> n, events |-> e, hearings |-> h] :
                e \in DocLists, h \in DocLists} :
        ExtractDocumentIds(p) = <<>> \/ Head(ExtractDocumentIds(p)) = 1}

NoPayload == [nkeys |-> 0, events |-> <<>>, hearings |-> <<>>]

\* document_map = {}: no id has content
EmptyMap == [d \in DocumentIds |-> None]

\* one of the two loops of _inject_documents_into_case
InjectInto(refs, map) ==
    [i \in DOMAIN refs |->
        IF refs[i].documentId # None /\ map[refs[i].documentId] # None
          THEN [refs[i] EXCEPT !.pdf_base64 = map[refs[i].documentId]]
          ELSE refs[i]]

\* (mutant of InjectDocuments) the loop over the hearings is missing
InjectEventsOnly(p, map) ==
    [p EXCEPT !.events = InjectInto(@, map)]

\* _inject_documents_into_case
InjectDocuments(p, map) ==
    [p EXCEPT !.events = InjectInto(@, map), !.hearings = InjectInto(@, map)]

\* process_case lines 120-129 and _download_documents lines 158-164: the
\* ids are extracted; without ids case_data is returned at once, otherwise
\* one download task per id is submitted to the pool
ProcessCaseCall(k) ==
    /\ casePc[k] = "process"
    /\ docPc = "idle"
    /\ \E p \in Payloads(case_data[k].nkeys) :
         /\ payload' = p
         /\ document_ids' = ExtractDocumentIds(p)
    /\ download' = [i \in DOMAIN document_ids' |->
                       [pc |-> "queued", tries |-> 0, content |-> None]]
    /\ docPc' = IF document_ids' = <<>> THEN "returned" ELSE "download"
    /\ collected' = {}
    /\ document_map' = EmptyMap
    /\ download_called' = FALSE
    /\ UNCHANGED <<tmVars, mainVars, cfgVars, stored, runVars, caseVars, lockVars>>

DownloadsRunning == {i \in DOMAIN download : download[i].pc = "running"}

\* a thread of the download pool takes the oldest submitted task
DownloadStart(i) ==
    /\ docPc = "download"
    /\ download[i].pc = "queued"
    /\ Cardinality(DownloadsRunning) < DocumentWorkers
    /\ \A j \in DOMAIN download : j < i => download[j].pc # "queued"
    /\ download' = [download EXCEPT ![i].pc = "running"]
    /\ UNCHANGED <<tmVars, mainVars, cfgVars, stored, runVars, caseVars, lockVars, docPc, payload,
                   document_ids, collected, document_map, download_called>>

\* (mutant of DownloadTry) the loop makes one iteration too many
DownloadTryOneMore(i) ==
    /\ docPc = "download"
    /\ download[i].pc = "running"
    /\ \E c \in Contents \cup {None} :
         download' = [download EXCEPT ![i] =
            IF c # None \/ @.tries + 1 > max_retries
              THEN [pc |-> "done", tries |-> 0, content |-> c]
              ELSE [@ EXCEPT !.tries = @ + 1]]
    /\ download_called' = TRUE
    /\ UNCHANGED <<tmVars, mainVars, cfgVars, stored, runVars, caseVars, lockVars, docPc, payload,
                   document_ids, collected, document_map>>

\* _download_document_with_retry, one iteration of lines 178-181:
\* get_document_base64 returns content or None (it catches every exception);
\* content ends the task, None ends it after max_retries iterations (the
\* loop variable is gone then)
DownloadTry(i) ==
    /\ docPc = "download"
    /\ download[i].pc = "running"
    /\ \E c \in Contents \cup {None} :
         download' = [download EXCEPT ![i] =
            IF c # None \/ @.tries + 1 >= max_retries
              THEN [pc |-> "done", tries |-> 0, content |-> c]
              ELSE [@ EXCEPT !.tries = @ + 1]]
    /\ download_called' = TRUE
    /\ UNCHANGED <<tmVars, mainVars, cfgVars, stored, runVars, caseVars, lockVars, docPc, payload,
                   document_ids, collected, document_map>>

\* _download_documents lines 166-173: as_completed yields a finished task;
\* its content, if any, is stored under its document id
DownloadCollect(i) ==
    /\ docPc = "download"
    /\ download[i].pc = "done"
    /\ i \notin collected
    /\ collected' = collected \cup {i}
    /\ document_map' = IF download[i].content # None
                         THEN [document_map EXCEPT ![document_ids[i]] = download[i].content]
                         ELSE document_map
    /\ UNCHANGED <<tmVars, mainVars, cfgVars, stored, runVars, caseVars, lockVars, docPc, payload,
                   document_ids, download, download_called>>

\* (mutant of ProcessCaseInject) the wait for the download tasks is missing
ProcessCaseInjectEarly ==
    /\ docPc = "download"
    /\ payload' = InjectDocuments(payload, document_map)
    /\ docPc' = "returned"
    /\ UNCHANGED <<tmVars, mainVars, cfgVars, stored, runVars, caseVars, lockVars,
                   document_ids, download, collected, document_map, download_called>>

\* _download_documents line 175 and process_case lines 133-137: every future
\* has been handled (the with block has joined the pool), the contents are
\* attached, case_data is returned
ProcessCaseInject ==
    /\ docPc = "download"
    /\ collected = DOMAIN document_ids
    /\ payload' = InjectDocuments(payload, document_map)
    /\ docPc' = "returned"
    /\ UNCHANGED <<tmVars, mainVars, cfgVars, stored, runVars, caseVars, lockVars,
                   document_ids, download, collected, document_map, download_called>>

\* the record of the last process_case call is dropped
ResetDocs ==
    /\ docPc' = "idle"
    /\ payload' = NoPayload
    /\ document_ids' = <<>>
    /\ download' = <<>>
    /\ collected' = {}
    /\ document_map' = EmptyMap
    /\ download_called' = FALSE

\* scraper.py line 172 once process_case has returned: the assignment of its
\* result to processed_case, doc_stats.  What process_case did stays on
\* record while the attempt goes on to the save call.
ProcessCaseReturn(k) ==
    /\ docPc = "returned"
    /\ CaseProcess(k)
    /\ IF casePc'[k] = "save"
         THEN /\ docPc' = "idle"
              /\ UNCHANGED <<payload, document_ids, download, collected,
                             document_map, download_called>>
         ELSE ResetDocs
    /\ UNCHANGED lockVars

\* ------------------------------------ the blocks "with self.stats_lock:"
\* A block adds one to stats[key] and, where the case failed, appends the
\* case id to failed_cases; the block of line 176 is left by the TypeError of
\* line 177 before it has changed anything (key "none").
Block(key, id) == [key |-> key, id |-> id]

\* the blocks the step of task k now taken enters, in order: the one of line
\* 176 when the step is the accounting of the save, then the one that counts
\* the outcome
BlocksEntered(k) ==
    (IF casePc[k] = "account"
          /\ SubscriptRaises(UnpackSecond(ProcessCase(case_data[k])))
       THEN <<Block("none", "")>> ELSE <<>>)
    \o (IF stats'.failed # stats.failed THEN <<Block("failed", case_ids[k])>>
        ELSE IF stats'.skipped # stats.skipped THEN <<Block("skipped", "")>>
        ELSE IF stats'.success # stats.success THEN <<Block("success", "")>>
        ELSE <<>>)

\* the pool threads in use: a task occupies its thread until its last block
\* is left
Busy == Running \cup {k \in Tasks : pending[k] # <<>>}

\* the steps of _process_single_case
CaseNext(k) == \/ CaseBegin(k) \/ CaseGetToken(k) \/ CaseFetch(k)
               \/ CaseExists(k) \/ CaseProcess(k) \/ CaseSave(k)
               \/ CaseAccount(k)

\* a step of _process_single_case up to the blocks it enters; the task goes on
\* only when it has left the blocks entered before
CaseStep(k) ==
    /\ pending[k] = <<>>
    /\ casePc[k] = "queued" => Cardinality(Busy) < case_workers
    /\ CaseNext(k)
    /\ pending' = [pending EXCEPT ![k] = BlocksEntered(k)]
    /\ UNCHANGED <<docVars, tokVars, stats_lock, lockPc, tmp, stats_mem, failed_cases_mem>>

\* (mutant of LockAcquire) the block is entered whoever holds the lock
LockAcquireNoWait(k) ==
    /\ pending[k] # <<>>
    /\ lockPc[k] = "out"
    /\ stats_lock' = k
    /\ lockPc' = [lockPc EXCEPT ![k] =
                     IF Head(pending[k]).key = "none" THEN "exit" ELSE "load"]
    /\ UNCHANGED <<tmVars, mainVars, cfgVars, stored, runVars, caseVars, docVars, tokVars,
                   pending, tmp, stats_mem, failed_cases_mem>>

\* with self.stats_lock: __enter__ blocks while another thread holds the lock
LockAcquire(k) ==
    /\ pending[k] # <<>>
    /\ lockPc[k] = "out"
    /\ stats_lock = 0
    /\ stats_lock' = k
    /\ lockPc' = [lockPc EXCEPT ![k] =
                     IF Head(pending[k]).key = "none" THEN "exit" ELSE "load"]
    /\ UNCHANGED <<tmVars, mainVars, cfgVars, stored, runVars, caseVars, docVars, tokVars,
                   pending, tmp, stats_mem, failed_cases_mem>>

\* self.stats[key] += 1, first half: the item is read
StatsLoad(k) ==
    /\ lockPc[k] = "load"
    /\ tmp' = [tmp EXCEPT ![k] = stats_mem[Head(pending[k]).key]]
    /\ lockPc' = [lockPc EXCEPT ![k] = "store"]
    /\ UNCHANGED <<tmVars, mainVars, cfgVars, stored, runVars, caseVars, docVars, tokVars,
                   stats_lock, pending, stats_mem, failed_cases_mem>>

\* self.stats[key] += 1, second half: the sum is stored
StatsStore(k) ==
    /\ lockPc[k] = "store"
    /\ stats_mem' = [stats_mem EXCEPT ![Head(pending[k]).key] = tmp[k] + 1]
    /\ tmp' = [tmp EXCEPT ![k] = 0]
    /\ lockPc' = [lockPc EXCEPT ![k] =
                     IF Head(pending[k]).id # "" THEN "append" ELSE "exit"]
    /\ UNCHANGED <<tmVars, mainVars, cfgVars, stored, runVars, caseVars, docVars, tokVars,
                   stats_lock, pending, failed_cases_mem>>

\* self.failed_cases.append(case_id)
FailedAppend(k) ==
    /\ lockPc[k] = "append"
    /\ failed_cases_mem' = Append(failed_cases_mem, Head(pending[k]).id)
    /\ lockPc' = [lockPc EXCEPT ![k] = "exit"]
    /\ UNCHANGED <<tmVars, mainVars, cfgVars, stored, runVars, caseVars, docVars, tokVars,
                   stats_lock, pending, tmp, stats_mem>>

\* the end of the with block (also when line 177 raises): the lock is released
LockRelease(k) ==
    /\ lockPc[k] = "exit"
    /\ stats_lock' = 0
    /\ pending' = [pending EXCEPT ![k] = Tail(@)]
    /\ lockPc' = [lockPc EXCEPT ![k] = "out"]
    /\ UNCHANGED <<tmVars, mainVars, cfgVars, stored, runVars, caseVars, docVars, tokVars,
                   tmp, stats_mem, failed_cases_mem>>

\* _process_cases: the pool is joined when every worker function has returned
RunPoolJoinWorkers ==
    /\ \A k \in Tasks : pending[k] = <<>>
    /\ RunPoolJoin

\* ------------------------------------ the blocks "with self.token_lock:"
\* current_token is written: the calls of get_token() in progress (tasks at
\* line 131) may return the value v
TokenWritten(v) ==
    token_during' = [k \in DOMAIN token_during |->
                       IF k \in DOMAIN casePc /\ casePc[k] = "token"
                         THEN token_during[k] \cup {v}
                         ELSE token_during[k]]

\* core.py line 103: with self.token_lock, entered when new_token is truthy
\* (line 102); __enter__ blocks while a get_token() holds the lock
RefreshTokenLock ==
    /\ refPc = "assign"
    /\ new_token # None
    /\ token_lock = 0
    /\ token_lock' = -1
    /\ UNCHANGED <<tmVars, mainVars, cfgVars, stored, runVars, caseVars, docVars,
                   stats_lock, lockPc, pending, tmp, stats_mem, failed_cases_mem,
                   got, token_during>>

\* (mutant of RefreshAssignLocked) line 103 is missing: the token is replaced
\* without the lock
RefreshAssignUnlocked ==
    /\ refPc = "assign"
    /\ IF new_token # None
         THEN /\ current_token' = new_token
              /\ refCode' = None
              /\ refPc' = "loop"
              /\ TokenWritten(new_token)
         ELSE /\ refPc' = "put"
              /\ UNCHANGED <<current_token, refCode, token_during>>
    /\ new_token' = None
    /\ UNCHANGED <<buffer_size, captcha_buffer, stop_event, prefill_i,
                   initial_captcha, capPc, capCode, mainVars,
                   cfgVars, stored, runVars, caseVars, docVars,
                   stats_lock, lockPc, pending, tmp, stats_mem, failed_cases_mem,
                   token_lock, got>>
    /\ exchanged' = exchanged \cap Alive'

\* core.py lines 102-108 with the lock of line 103 held for the assignment of
\* line 104 and released after it; a falsy new_token goes on to the put
RefreshAssignLocked ==
    /\ refPc = "assign"
    /\ IF new_token # None
         THEN /\ token_lock = -1
              /\ current_token' = new_token
              /\ refCode' = None
              /\ refPc' = "loop"
              /\ token_lock' = 0
              /\ TokenWritten(new_token)
         ELSE /\ refPc' = "put"
              /\ UNCHANGED <<current_token, refCode, token_lock, token_during>>
    /\ new_token' = None
    /\ UNCHANGED <<buffer_size, captcha_buffer, stop_event, prefill_i,
                   initial_captcha, capPc, capCode, mainVars,
                   cfgVars, stored, runVars, caseVars, docVars,
                   stats_lock, lockPc, pending, tmp, stats_mem, failed_cases_mem,
                   got>>
    /\ exchanged' = exchanged \cap Alive'

\* a call of get_token() begins when its task arrives at line 131
CallBegins(k) ==
    token_during' = [token_during EXCEPT ![k] =
                       IF casePc'[k] = "token" THEN {current_token} ELSE @]

\* get_token(), core.py line 69: with self.token_lock
GetTokenLock(k) ==
    /\ casePc[k] = "token"
    /\ token_lock = 0
    /\ token_lock' = k
    /\ UNCHANGED <<tmVars, mainVars, cfgVars, stored, runVars, caseVars, docVars,
                   stats_lock, lockPc, pending, tmp, stats_mem, failed_cases_mem,
                   got, token_during>>

\* get_token(), core.py line 70: the token is read and returned, the lock
\* released; scraper.py lines 131-142 act on the value
GetTokenReturn(k) ==
    /\ token_lock = k
    /\ CaseGetToken(k)
    /\ got' = [got EXCEPT ![k] = current_token]
    /\ token_lock' = 0
    /\ CallBegins(k)
    /\ UNCHANGED <<docVars, stats_lock, lockPc, pending, tmp, stats_mem,
                   failed_cases_mem>>

\* the steps of _process_single_case other than the call of get_token()
CaseStepAfterToken(k) ==
    /\ casePc[k] # "token"
    /\ CaseNext(k)
    /\ CallBegins(k)
    /\ UNCHANGED <<docVars, stats_lock, lockPc, pending, tmp, stats_mem,
                   failed_cases_mem, token_lock, got>>

\* ------------------------------------------------------- specification
Init ==
    /\ api_key_set \in BOOLEAN
    /\ buffer_size \in 0..MaxBufferSize
    /\ max_retries \in 0..MaxRetries
    /\ case_workers \in 1..MaxCaseWorkers
    /\ captcha_buffer = <<>>
    /\ current_token = None
    /\ stop_event = FALSE
    /\ prefill_i = 0
    /\ initial_captcha = None
    /\ capPc = "idle" /\ capCode = None
    /\ refPc = "idle" /\ refCode = None /\ new_token = None
    /\ exchanged = {}
    /\ case_file \in CaseFiles
    /\ stored \in SUBSET Range(LoadCaseIds(case_file))
    /\ case_ids = <<>>
    /\ stats = InitStats
    /\ failed_cases = <<>>
    /\ casePc = <<>> /\ attempt = <<>> /\ case_data = <<>>
    /\ save_result = <<>> /\ calls = <<>>
    /\ docPc = "idle"
    /\ payload = NoPayload
    /\ document_ids = <<>>
    /\ download = <<>>
    /\ collected = {}
    /\ document_map = EmptyMap
    /\ download_called = FALSE
    /\ stats_lock = 0
    /\ lockPc = [k \in 1..MaxRows |-> "out"]
    /\ pending = [k \in 1..MaxRows |-> <<>>]
    /\ tmp = [k \in 1..MaxRows |-> 0]
    /\ stats_mem = InitStats
    /\ failed_cases_mem = <<>>
    /\ token_lock = 0
    /\ got = [k \in 1..MaxRows |-> None]
    /\ token_during = [k \in 1..MaxRows |-> {}]
    /\ mainPc = "main"
    /\ start_result = "pending"
    /\ exitStatus = -1
    /\ stop_calls = 0

\* the steps of TokenManager.start()
StartNext == StartPrefill \/ StartTake \/ StartExchange

MainNext == \/ MainCheckKey \/ MainConstruct
            \/ StartPrefill \/ StartTake \/ StartExchange
            \/ RunLoad \/ RunPoolJoin
            \/ StopSet \/ StopJoin

CaptchaWorkerNext == \/ CaptchaLoop \/ CaptchaCheckFull \/ CaptchaSolve
                     \/ CaptchaPut \/ CaptchaSleep

RefreshWorkerNext == \/ RefreshLoop \/ RefreshWake \/ RefreshTake
                     \/ RefreshTakeTimeout \/ RefreshExcept \/ RefreshExchange
                     \/ RefreshAssign \/ RefreshRequeue

\* The main thread and the case pool.  The two background threads are
\* started by start() and only ever write captcha_buffer and current_token,
\* of which the case workers read current_token alone; their steps are
\* explored with the main thread under TMSpec.  process_case is one step
\* here (CaseProcess); its inside is explored under PipelineSpec.
Next == \/ MainNext
        \/ \E k \in Tasks : CaseNext(k) /\ UNCHANGED <<docVars, lockVars>>

Spec == Init /\ [][Next]_vars

\* The Token Manager as run() drives it, on an empty worklist: start(), the
\* two background threads, stop().
TMInit == Init /\ api_key_set /\ case_file = <<>>
               /\ max_retries = MaxRetries /\ case_workers = 1

TMNext == \/ MainNext
          \/ CaptchaWorkerNext
          \/ RefreshWorkerNext

TMSpec == TMInit /\ [][TMNext]_vars

\* threads of one process are all scheduled: weak fairness of each thread
FairTMSpec == TMSpec /\ WF_vars(MainNext)
                     /\ WF_vars(CaptchaWorkerNext)
                     /\ WF_vars(RefreshWorkerNext)

\* The background loops during a run of any length: both loops are scheduled,
\* and a solve that is tried again and again succeeds in the end.  Nothing is
\* assumed of the main thread, which waits for the case pool for as long as
\* the cases take.
ReplenishFairSpec == TMSpec /\ WF_vars(CaptchaWorkerNext)
                            /\ WF_vars(RefreshWorkerNext)
                            /\ SF_vars(CaptchaSolve /\ capPc' = "put")

\* One case worker beside the two background loops, with the blocks under
\* the token lock executed step by step.
TokenInit == Init /\ api_key_set /\ buffer_size = 1 /\ case_workers = 1
                  /\ max_retries >= 1 /\ case_file = <<"A">> /\ stored = {}

TokenNext ==
    \/ MainNext
    \/ CaptchaWorkerNext
    \/ RefreshLoop \/ RefreshWake \/ RefreshTake \/ RefreshTakeTimeout
    \/ RefreshExcept \/ RefreshExchange \/ RefreshRequeue
    \/ RefreshTokenLock \/ RefreshAssignLocked
    \/ \E k \in Tasks : GetTokenLock(k)
    \/ \E k \in Tasks : GetTokenReturn(k)
    \/ \E k \in Tasks : CaseStepAfterToken(k)

TokenSpec == TokenInit /\ [][TokenNext]_vars

\* The Token Manager with a caller that calls stop() again after stop() has
\* returned, whether start() succeeded or not.
StopNext == \/ TMNext
            \/ StopAgain

StopSpec == TMInit /\ [][StopNext]_vars

\* One case, from main() to the exit, with the inside of process_case: the
\* extraction, the parallel downloads, the collection of their results and
\* the attachment, between the existence check and the assignment of line 172.
PipelineInit == Init /\ api_key_set /\ buffer_size = 1 /\ case_workers = 1
                     /\ max_retries >= 1 /\ case_file = <<"A">>

DownloadNext == \/ \E i \in DOMAIN download :
                      DownloadStart(i) \/ DownloadTry(i) \/ DownloadCollect(i)
                \/ ProcessCaseInject

PipelineNext ==
    \/ MainNext
    \/ \E k \in Tasks :
          \/ /\ \/ CaseBegin(k) \/ CaseGetToken(k) \/ CaseFetch(k)
                \/ CaseExists(k) \/ CaseSave(k)
             /\ UNCHANGED <<docVars, lockVars>>
          \/ CaseAccount(k) /\ ResetDocs /\ UNCHANGED lockVars
          \/ ProcessCaseCall(k)
          \/ ProcessCaseReturn(k)
    \/ DownloadNext

PipelineSpec == PipelineInit /\ [][PipelineNext]_vars

\* The case pool with the blocks under the statistics lock executed step by
\* step: the steps of different workers' blocks interleave as the lock allows.
StatsInit == Init /\ api_key_set /\ buffer_size = 1 /\ max_retries >= 1

LockNext(k) == \/ LockAcquire(k) \/ StatsLoad(k) \/ StatsStore(k)
               \/ FailedAppend(k) \/ LockRelease(k)

StatsNext ==
    \/ MainCheckKey \/ MainConstruct
    \/ StartPrefill \/ StartTake \/ StartExchange
    \/ RunLoad \/ RunPoolJoinWorkers
    \/ StopSet \/ StopJoin
    \/ \E k \in Tasks : CaseStep(k)
    \/ \E k \in Tasks : LockNext(k)

StatsSpec == StatsInit /\ [][StatsNext]_vars

\* ================================================================ claims
\* run() has left the try block: the pool has been joined, or an exception
\* was caught
RunEnded == mainPc \in {"stop", "join", "exit"}

\* start() has returned normally
Started == start_result = "ok"

LoopEnded(pc) == pc \in {"idle", "done"}

\* C1 (stated as claimed; refuted by max_retries = 0): at run end
\* success + failed + skipped = total, for every worklist and every
\* max_retries setting.
C1_StatsSumAtRunEnd ==
    RunEnded => stats.success + stats.failed + stats.skipped = stats.total

\* C2: in every reachable state the Captcha Buffer holds between 0 and
\* buffer_size solutions, whatever the interleaving of the pre-fill, the
\* replenish put, the refresh take and the requeue put.
C2_BufferWithinCapacity ==
    /\ Len(captcha_buffer) >= 0
    /\ Len(captcha_buffer) <= buffer_size

\* C2 witness: the buffer is at capacity while the replenish loop, which saw
\* room before its solve, is waiting to put (the refresh loop requeued first)
C2_Witness ==
    /\ buffer_size > 0
    /\ Len(captcha_buffer) = buffer_size
    /\ capPc = "put"
    /\ ~stop_event

\* C3: once start() has returned successfully the current token (what
\* get_token() returns) is never unset again: not by a refresh, a failed
\* exchange or a buffer timeout.
C3_TokenSetAfterStart ==
    Started => current_token # None

\* C3 witness: after a successful start() a refresh exchange has failed
C3_Witness ==
    /\ Started
    /\ refPc = "put"
    /\ current_token # None

\* C4 (stated as claimed; refuted): start() never blocks forever, also when
\* every pre-fill solve failed: while it is in progress (with a buffer size of
\* at least 1) one of its steps can be taken, so that it ends by returning or
\* by raising.  No other thread exists yet that could release a blocked
\* start().
C4_StartNeverBlocks ==
    (mainPc \in {"start_prefill", "start_exchange"} /\ buffer_size >= 1)
        => ENABLED StartNext

\* C5: when start() failed no case is processed: the worklist is not
\* loaded, no task exists (so no fetch, existence check, pipeline or save
\* call), and every counter stays 0.
C5_NoProcessingAfterFailedStart ==
    start_result = "failed" =>
        /\ case_ids = <<>>
        /\ calls = <<>>
        /\ casePc = <<>>
        /\ stats = InitStats
        /\ failed_cases = <<>>

\* C5 witness: the run is over after a failed start() although the worklist
\* file names cases
C5_Witness ==
    /\ start_result = "failed"
    /\ mainPc = "exit"
    /\ Len(LoadCaseIds(case_file)) > 0

\* C6 (stated as claimed; refuted): the exit status is 0 exactly when the
\* credential was present and start-up succeeded; it is non-zero when the
\* credential is absent, the scraper could not be constructed or the Token
\* Manager initialization failed.
C6_ExitStatus ==
    mainPc = "exit" => (exitStatus = 0 <=> start_result = "ok")

\* C7 (stated as claimed; refuted): after stop() has set the stop signal both
\* background loops eventually terminate, from every state they can be in.
C7_LoopsTerminateAfterStop ==
    stop_event ~> (LoopEnded(capPc) /\ LoopEnded(refPc))

\* C8: when the refresh exchange returned no token, the current token is
\* left as it was, the loop keeps the solution it took and goes on to the
\* requeue, and the requeue puts that very solution into the buffer.
C8_FailedExchangeKeepsTokenAndRequeues ==
    [][ /\ (refPc = "assign" /\ new_token = None) =>
              /\ current_token' = current_token
              /\ refCode' = refCode
              /\ refPc' \in {"assign", "put"}
        /\ refPc = "put" =>
              /\ current_token' = current_token
              /\ \/ refPc' = "put" /\ refCode' = refCode
                 \/ /\ refPc' = "loop"
                    /\ refCode \in Range(captcha_buffer')
                    /\ Len(captcha_buffer') = Len(captcha_buffer) + 1
      ]_vars

\* C8 witness: an exchange has failed and the loop holds the solution for
\* the requeue, the token still set
C8_Witness ==
    /\ refPc = "put"
    /\ refCode # None
    /\ current_token # None
    /\ ~QueueFull(captcha_buffer, buffer_size)

\* C9 (stated as claimed; refuted): the requeue after a failed exchange puts
\* the consumed solution at the front of the buffer, so that the next take
\* returns it ahead of the solutions already buffered.
C9_RequeueAtFront ==
    [][ (refPc = "put" /\ refPc' = "loop") => Head(captcha_buffer') = refCode ]_vars

\* C10 (stated as claimed; refuted): the requeue of the refresh loop never
\* waits on a full buffer.  The refresh loop is the only consumer once
\* start() has returned, so a requeue that finds the buffer full waits
\* forever and the loop reaches no later refresh cycle.
C10_RequeueNeverBlocked ==
    refPc = "put" => ENABLED RefreshRequeue

\* C11 (stated as claimed; refuted): a captcha solution is passed to the
\* token exchange at most once: neither start() nor the refresh loop calls
\* get_token with a solution that was already passed to it.
C11_SolutionExchangedAtMostOnce ==
    [][ /\ (refPc = "exchange" /\ refPc' = "assign") => refCode \notin exchanged
        /\ (mainPc = "start_exchange" /\ mainPc' # "start_exchange")
              => initial_captcha \notin exchanged
      ]_vars

\* C12: once the existence check has returned true for a case, that step
\* counts the case skipped (and nothing else) and ends its task, and no call
\* at all - in particular no document pipeline and no save call - is made
\* for the case from then on, in that attempt or any later one.
C12_PresentCaseIsSkipped ==
    [][ \A k \in DOMAIN calls :
          /\ calls'[k].present > calls[k].present =>
                /\ casePc'[k] = "done"
                /\ stats' = [stats EXCEPT !.skipped = @ + 1]
                /\ failed_cases' = failed_cases
                /\ calls'[k].process = calls[k].process
                /\ calls'[k].save = calls[k].save
          /\ calls[k].present > 0 =>
                /\ casePc[k] = "done" /\ casePc'[k] = "done"
                /\ calls'[k] = calls[k]
      ]_vars

\* C12 witness: in a second attempt (the first one went through the document
\* pipeline and failed) the existence check returned true, and the run ended
C12_Witness ==
    /\ mainPc = "exit"
    /\ \E k \in DOMAIN calls :
         /\ calls[k].present = 1
         /\ calls[k].exists = 2
         /\ calls[k].process = 1
    /\ stats.skipped >= 1

\* C13 (stated as claimed; refuted): for a case whose existence check
\* returned true no fetch, no document pipeline and no save call was made.
C13_NoCallsForPresentCase ==
    \A k \in DOMAIN calls :
        calls[k].present > 0 =>
            /\ calls[k].fetch = 0
            /\ calls[k].process = 0
            /\ calls[k].save = 0

\* the document entries of the payload, events first
AllRefs == payload.events \o payload.hearings

\* the tasks of the last process_case call that obtained content, and those
\* that used up their retries
Downloaded == {i \in DOMAIN download : download[i].pc = "done" /\ download[i].content # None}
Exhausted  == {i \in DOMAIN download : download[i].pc = "done" /\ download[i].content = None}

\* process_case has returned and its result has passed line 172
PastPipeline(k) == casePc[k] \in {"save", "account"}

\* C14: whenever a case worker is at the save call (or past it, within the
\* attempt), process_case has returned: every download task of every
\* extracted document id has ended and been handled, none is queued or
\* running, and the attachment has been made from the collected contents.
C14_SaveAfterAllDownloads ==
    \A k \in DOMAIN casePc :
        PastPipeline(k) =>
            /\ docPc = "idle"
            /\ DOMAIN download = DOMAIN document_ids
            /\ \A i \in DOMAIN download : download[i].pc = "done"
            /\ collected = DOMAIN document_ids
            /\ payload = InjectDocuments(payload, document_map)
            /\ \A i \in Downloaded : document_map[document_ids[i]] # None

\* C14 witness: the worker is at the save call after two downloads, one of
\* which obtained content and was attached, the other exhausted its retries
C14_Witness ==
    /\ \E k \in DOMAIN casePc : casePc[k] = "save"
    /\ Len(document_ids) = 2
    /\ Downloaded # {} /\ Exhausted # {}
    /\ \E r \in Range(AllRefs) : r.pdf_base64 # None

\* C15 (stated as claimed; refuted): an attempt whose document pipeline
\* returned with a document that exhausted its retries goes on without an
\* error: the result is taken apart into payload and statistics (line 172),
\* the save call is made, the statistics are accounted (line 177), so that
\* the case is counted Success when the save succeeded.
C15_DocumentFailureDoesNotFailCase ==
    \A k \in DOMAIN casePc :
        Exhausted # {} =>
            /\ (casePc[k] = "process" /\ docPc = "returned")
                  => ~UnpackRaises(ProcessCase(case_data[k]))
            /\ casePc[k] = "account"
                  => ~SubscriptRaises(UnpackSecond(ProcessCase(case_data[k])))

\* C16 (stated as claimed; refuted): process_case returns a pair; for a
\* payload without document ids the caller gets the payload itself and the
\* statistics {total 0, downloaded 0, failed 0}, and no download call is made.
C16_ReturnsPayloadAndZeroStats ==
    \A k \in DOMAIN casePc :
        (casePc[k] = "save" /\ document_ids = <<>>) =>
            /\ ~download_called
            /\ UnpackFirst(ProcessCase(case_data[k])) = case_data[k]
            /\ UnpackSecond(ProcessCase(case_data[k]))
                  = [total |-> 0, downloaded |-> 0, failed |-> 0]

\* C17 (stated as claimed; refuted): for a payload with document ids the
\* statistics the caller gets from process_case are total = number of
\* download tasks, downloaded = tasks that obtained content, failed = tasks
\* that exhausted their retries (so total = downloaded + failed).
C17_DocumentStatsCountTasks ==
    \A k \in DOMAIN casePc :
        (casePc[k] = "save" /\ document_ids # <<>>) =>
            UnpackSecond(ProcessCase(case_data[k]))
                = [total |-> Len(document_ids),
                   downloaded |-> Cardinality(Downloaded),
                   failed |-> Cardinality(Exhausted)]

\* C18: when process_case has returned, all document entries with one
\* document id carry the same content - one that a download of that id
\* obtained - if any download of the id succeeded, and an entry whose id has
\* no successful download (or that has no id) carries no content; whatever
\* the order in which the downloads ended.
C18_AttachmentConsistent ==
    docPc = "returned" =>
        \A r \in Range(AllRefs) :
            /\ \A q \in Range(AllRefs) :
                  q.documentId = r.documentId => q.pdf_base64 = r.pdf_base64
            /\ IF r.documentId # None
                  /\ \E i \in Downloaded : document_ids[i] = r.documentId
                 THEN \E i \in Downloaded : /\ document_ids[i] = r.documentId
                                            /\ download[i].content = r.pdf_base64
                 ELSE r.pdf_base64 = None

\* C18 witness: one id under an event and under a hearing, its two downloads
\* obtained different contents, both entries carry one of them
C18_Witness ==
    /\ docPc = "returned"
    /\ Len(payload.events) = 1 /\ Len(payload.hearings) = 1
    /\ payload.events[1].documentId = payload.hearings[1].documentId
    /\ Cardinality(Downloaded) = 2
    /\ download[1].content # download[2].content
    /\ payload.events[1].pdf_base64 # None
    /\ payload.events[1].pdf_base64 = payload.hearings[1].pdf_base64

\* C19 (stated as claimed; refuted): the worklist is A, B; every fetch of A
\* failed, in each of its max_retries attempts; every fetch of B returned a
\* payload with a case number, every existence check of B returned false and
\* every such attempt went through the document pipeline.  Then the run ends
\* with A alone in the failed-case list and total 2, success 1, failed 1,
\* skipped 0, after exactly max_retries fetch calls for A.
C19_FetchExhaustedAndSuccess ==
    ( /\ RunEnded
      /\ case_ids = <<"A", "B">>
      /\ max_retries >= 1
      /\ calls[1].fetch = max_retries /\ calls[1].exists = 0
      /\ calls[2].fetch >= 1
      /\ calls[2].exists = calls[2].fetch /\ calls[2].present = 0
      /\ calls[2].process = calls[2].exists )
    => /\ failed_cases = <<"A">>
       /\ stats.total = 2 /\ stats.success = 1
       /\ stats.failed = 1 /\ stats.skipped = 0

\* the tasks that have ended
TasksDone == {k \in DOMAIN casePc : casePc[k] = "done"}

\* C20: a save call that reported failure makes the attempt end without the
\* case being counted Success: the case is retried while attempts remain and
\* is counted Failed (once, and entered in the failed-case list) after the
\* last one; a case is counted Success only by an attempt whose save call
\* reported success; at most max_retries save calls are made for a case, and
\* no case is counted more than once over Success, Failed and Skipped.
C20_SaveFailureRetriedThenFailed ==
    /\ [](\A k \in DOMAIN calls : calls[k].save <= max_retries)
    /\ [](stats.success + stats.failed + stats.skipped <= Cardinality(TasksDone))
    /\ [][ /\ \A k \in DOMAIN casePc :
                (casePc[k] = "account" /\ casePc'[k] # "account" /\ ~save_result[k]) =>
                   /\ stats'.success = stats.success
                   /\ IF attempt[k] < max_retries - 1
                        THEN /\ casePc'[k] = "token"
                             /\ attempt'[k] = attempt[k] + 1
                             /\ stats' = stats
                             /\ failed_cases' = failed_cases
                        ELSE /\ casePc'[k] = "done"
                             /\ stats' = [stats EXCEPT !.failed = @ + 1]
                             /\ failed_cases' = Append(failed_cases, case_ids[k])
           /\ stats'.success # stats.success =>
                \E k \in DOMAIN casePc :
                    /\ casePc[k] = "account" /\ save_result[k]
                    /\ casePc'[k] = "done"
                    /\ stats' = [stats EXCEPT !.success = @ + 1]
         ]_vars

\* C20 witness: the run has ended; the save call of a case reported failure
\* in each of its two attempts and the case was counted failed
C20_Witness ==
    /\ mainPc = "exit"
    /\ max_retries = 2
    /\ \E k \in DOMAIN calls : calls[k].save = 2
    /\ stats.failed >= 1
    /\ stats.success = 0

\* C21: the fetch that returns a payload without case number ends the task
\* at once, also when attempts remain: that step counts the case failed and
\* enters its id in the failed-case list, and no call at all - no further
\* fetch, no existence check, no document pipeline, no save - is made for
\* the case from then on.
C21_MissingCaseNumberFailsAtOnce ==
    [][ \A k \in DOMAIN calls :
          /\ calls'[k].nonumber > calls[k].nonumber =>
                /\ casePc'[k] = "done"
                /\ stats' = [stats EXCEPT !.failed = @ + 1]
                /\ failed_cases' = Append(failed_cases, case_ids[k])
          /\ calls[k].nonumber > 0 =>
                /\ casePc[k] = "done" /\ casePc'[k] = "done"
                /\ calls'[k] = calls[k]
      ]_vars

\* C21 witness: with two attempts allowed, the first fetch of a case returned
\* a payload without case number; the run ended after that single fetch
C21_Witness ==
    /\ mainPc = "exit"
    /\ max_retries = 2
    /\ \E k \in DOMAIN calls :
         /\ calls[k].nonumber = 1
         /\ calls[k].fetch = 1 /\ calls[k].token = 1
         /\ calls[k].exists = 0 /\ calls[k].process = 0 /\ calls[k].save = 0
    /\ stats.failed >= 1

\* the step task k is about to take raises an unexpected error: the
\* ValueError of the assignment of line 172, or the TypeError of line 177
AttemptRaises(k) ==
    \/ casePc[k] = "process" /\ UnpackRaises(ProcessCase(case_data[k]))
    \/ casePc[k] = "account" /\ SubscriptRaises(UnpackSecond(ProcessCase(case_data[k])))

\* C22: an unexpected error in an attempt is caught in the worker: the step
\* that raises it starts the next attempt (nothing counted) while attempts
\* remain, and on the last attempt counts the case failed and enters its id
\* in the failed-case list; the main thread and all other tasks are left as
\* they are.  While a task has not ended some task can take a step, and when
\* a run in which an attempt raised has ended, every task has ended with
\* exactly one outcome counted.
C22_ErrorCaughtInWorker ==
    /\ [][ \A k \in DOMAIN casePc :
             (AttemptRaises(k) /\ casePc'[k] # casePc[k]) =>
                /\ IF attempt[k] < max_retries - 1
                     THEN /\ casePc'[k] = "token"
                          /\ attempt'[k] = attempt[k] + 1
                          /\ stats' = stats
                          /\ failed_cases' = failed_cases
                     ELSE /\ casePc'[k] = "done"
                          /\ stats' = [stats EXCEPT !.failed = @ + 1]
                          /\ failed_cases' = Append(failed_cases, case_ids[k])
                /\ mainPc' = mainPc
                /\ \A j \in DOMAIN casePc : j # k => casePc'[j] = casePc[j]
         ]_vars
    /\ []( (mainPc = "process" /\ \E k \in Tasks : casePc[k] # "done")
              => ENABLED (\E k \in Tasks : CaseNext(k)) )
    /\ []( (RunEnded /\ \E k \in DOMAIN calls : calls[k].process > 0) =>
              /\ \A k \in Tasks : casePc[k] = "done"
              /\ stats.success + stats.failed + stats.skipped = stats.total )

\* C22 witness: the run has ended; the first of two cases raised in both of
\* its attempts and is the one failed case, the second case was skipped
C22_Witness ==
    /\ mainPc = "exit"
    /\ max_retries = 2
    /\ Len(case_ids) = 2
    /\ calls[1].process = 2 /\ calls[1].save = 0
    /\ calls[2].present = 1
    /\ failed_cases = <<case_ids[1]>>
    /\ stats.failed = 1 /\ stats.skipped = 1

\* the number of entries of list s equal to x
RECURSIVE CountOf(_, _)
CountOf(s, x) ==
    IF s = <<>> THEN 0
    ELSE (IF Head(s) = x THEN 1 ELSE 0) + CountOf(Tail(s), x)

\* C23: the counters and the failed-case list change only in a step of the
\* task that holds the statistics lock, and no increment is lost: whenever no
\* block is in progress, and so when the run has ended, every counter equals
\* the number of increments issued and the list holds every id as often as
\* it was appended.
C23_NoLostUpdate ==
    /\ [][ (stats_mem' # stats_mem \/ failed_cases_mem' # failed_cases_mem) =>
              /\ stats_lock # 0
              /\ stats_lock' = stats_lock
              /\ lockPc[stats_lock] \in {"store", "append"}
              /\ lockPc'[stats_lock] # lockPc[stats_lock]
              /\ \A j \in DOMAIN lockPc : j # stats_lock => lockPc'[j] = lockPc[j]
         ]_vars
    /\ []( (\A k \in DOMAIN pending : pending[k] = <<>>) =>
              /\ stats_mem.failed = stats.failed
              /\ stats_mem.skipped = stats.skipped
              /\ stats_mem.success = stats.success
              /\ Len(failed_cases_mem) = Len(failed_cases)
              /\ \A id \in CaseIdNames :
                    CountOf(failed_cases_mem, id) = CountOf(failed_cases, id) )
    /\ []( RunEnded => \A k \in DOMAIN pending : pending[k] = <<>> )

\* C23 witness: two workers count a failed case at the same time: the first
\* holds the lock and has stored its increment, the second waits for the lock
C23_Witness ==
    /\ case_workers = 2
    /\ stats_lock = 1 /\ lockPc[1] = "append"
    /\ stats_mem.failed = 1 /\ failed_cases_mem = <<>>
    /\ lockPc[2] = "out" /\ pending[2] # <<>> /\ Head(pending[2]).key = "failed"
    /\ stats.failed = 2

\* C24 (stated as claimed; refuted by a worklist that repeats a case id):
\* once a non-empty worklist is loaded, stats total is the number of distinct
\* non-blank rows of the file.
C24_TotalCountsDistinctLines ==
    case_ids # <<>> =>
        stats.total = Cardinality(Range(LoadCaseIds(case_file)))

\* C25 (stated as claimed; refuted by a take that returns after stop()): once
\* the stop signal is set no background loop begins a solve call, a take or
\* an exchange call.  The solve and the take follow a test of the signal at
\* once, so they count as in flight from that test on: with the signal set
\* the replenish loop enters no iteration, the refresh loop goes to no take,
\* and no exchange call is arrived at.
C25_NoNewWorkAfterStop ==
    [][ stop_event =>
          /\ capPc = "loop" => capPc' \in {"loop", "done"}
          /\ refPc \in {"loop", "sleep"} => refPc' \in {refPc, "done"}
          /\ ~(refPc # "exchange" /\ refPc' = "exchange")
      ]_vars

\* C26: stop() may be called again, and may be called when start() failed and
\* no loop runs: every call can complete (it neither waits forever nor
\* raises), its steps change nothing of the manager but the stop signal, which
\* a later call finds set and leaves set, and so the current token is as it
\* was; after a failed start() the loops stay unstarted.
C26_StopIdempotent ==
    /\ []( mainPc \in {"stop", "join"} => ENABLED (StopSet \/ StopJoin) )
    /\ []( stop_calls >= 1 => stop_event )
    /\ []( (start_result = "failed" /\ stop_calls >= 1) =>
              capPc = "idle" /\ refPc = "idle" /\ current_token = None )
    /\ [][ (mainPc \in {"stop", "join"} /\ mainPc' # mainPc) =>
              /\ current_token' = current_token
              /\ captcha_buffer' = captcha_buffer
              /\ capPc' = capPc /\ refPc' = refPc
              /\ stop_event'
              /\ stop_calls >= 1 => stop_event' = stop_event
         ]_vars

\* C26 witness: stop() has returned twice while the refresh loop, still in a
\* cycle, has not ended; the token is in place
C26_Witness ==
    /\ stop_calls = 2
    /\ mainPc = "exit"
    /\ Started /\ current_token # None
    /\ stop_event
    /\ refPc = "exchange"

\* C27 (stated as claimed; refuted by a solve_captcha that raises): a failed
\* solve of the pre-fill does not abort start(): the pre-fill is left only
\* when all buffer_size solves have been attempted, and then for the take of
\* the initial solution and its exchange.
C27_PrefillFailureDoesNotAbort ==
    [][ (mainPc = "start_prefill" /\ mainPc' # mainPc) =>
           /\ prefill_i >= buffer_size
           /\ mainPc' = "start_exchange"
           /\ start_result' = start_result
      ]_vars

\* the replenish loop is running and the buffer is below capacity
ReplenishNeeded ==
    /\ capPc \notin {"idle", "done"}
    /\ ~stop_event
    /\ Len(captcha_buffer) < buffer_size

\* the replenish loop ends only on the stop signal; a failed solve is
\* followed by the back-off sleep, and the sleep by the head of the loop
ReplenishSurvivesFailure ==
    /\ [][ (capPc # "done" /\ capPc' = "done") => stop_event ]_vars
    /\ [][ (capPc = "solve" /\ capPc' # "solve" /\ capCode' = None) =>
              capPc' = "sleep" ]_vars
    /\ [][ (capPc = "sleep" /\ capPc' # "sleep") => capPc' = "loop" ]_vars

\* C28 (as amended): the replenish loop never exits because of a failure, and
\* whenever it runs with the buffer below capacity it eventually has a
\* further solution to put, unless the buffer is full or the stop signal set
\* before.
C28_ReplenishKeepsSupplying ==
    /\ ReplenishSurvivesFailure
    /\ ReplenishNeeded ~>
          (capPc = "put" \/ Len(captcha_buffer) = buffer_size \/ stop_event)

\* C28 (stated as claimed; refuted by a refresh loop that takes every
\* solution as it arrives): the replenish loop never exits because of a
\* failure, and whenever the buffer is below capacity it eventually becomes
\* full, unless the stop signal is set before.
C28_ReplenishRefillsBuffer ==
    /\ ReplenishSurvivesFailure
    /\ ReplenishNeeded ~> (Len(captcha_buffer) = buffer_size \/ stop_event)

\* C28 witness: the replenish loop is in its back-off sleep with the buffer,
\* of capacity 1, empty and the token still the one start() obtained from
\* the first solution: the solve it made has failed
C28_Witness ==
    /\ Started /\ ~stop_event
    /\ buffer_size = 1 /\ captcha_buffer = <<>>
    /\ current_token = 1
    /\ capPc = "sleep" /\ capCode = None
    /\ refPc \in {"loop", "sleep"}

\* C29: when the take of the refresh loop times out on the empty buffer, the
\* loop goes through its handler to the head of the next cycle: it does not
\* end, it holds no solution and makes no exchange call, and the timeout and
\* the handler leave the current token, the buffer, the main thread and the
\* exit status as they are.
C29_ExhaustedIsTransient ==
    /\ [][ (refPc = "take" /\ refPc' # "take" /\ captcha_buffer' = captcha_buffer) =>
              refPc' = "except" ]_vars
    /\ [][ (refPc = "except" /\ refPc' # "except") => refPc' = "loop" ]_vars
    /\ [][ (refPc' = "except" \/ refPc = "except") =>
              /\ current_token' = current_token
              /\ exchanged' = exchanged
              /\ refCode' = None /\ new_token' = None
              /\ (refPc' # refPc =>
                    /\ captcha_buffer' = captcha_buffer
                    /\ mainPc' = mainPc
                    /\ exitStatus' = exitStatus)
         ]_vars

\* C29 witness: the take has timed out during the run; the token is in place
C29_Witness ==
    /\ refPc = "except"
    /\ Started /\ current_token # None
    /\ ~stop_event
    /\ captcha_buffer = <<>>

\* C30: a background loop is past its start only when start() has obtained
\* and stored a token: neither loop takes a step, so no solve, take or
\* exchange of a loop happens, before that; when the initial exchange (or
\* anything before it) fails, both loops stay unstarted for good.
C30_LoopsStartAfterInit ==
    /\ []( (capPc # "idle" \/ refPc # "idle") => (Started /\ current_token # None) )
    /\ []( start_result # "ok" => (capPc = "idle" /\ refPc = "idle") )
    /\ [][ (capPc' # capPc \/ refPc' # refPc) => start_result' = "ok" ]_vars

\* C30 witness: the initial exchange has failed after a pre-fill of two
\* solves; the run has ended with no loop started and one solution left
C30_Witness ==
    /\ start_result = "failed"
    /\ buffer_size = 2 /\ prefill_i = 2
    /\ Len(captcha_buffer) = 1
    /\ current_token = None
    /\ mainPc = "exit"
    /\ capPc = "idle" /\ refPc = "idle"

\* a step that assigns self.current_token: line 44 of start() (also when the
\* value assigned is falsy) or line 104 of the refresh loop
TokenWriteStep ==
    \/ current_token' # current_token
    \/ mainPc = "start_exchange" /\ mainPc' # mainPc

\* the value a call of get_token() returns is one the token had during the call
ReturnsOldOrNew ==
    [][ \A k \in DOMAIN got :
          got'[k] # got[k] =>
             /\ token_lock = k
             /\ got'[k] \in token_during[k]
      ]_vars

\* C31 (as amended): the token is written only by start() and by the refresh
\* loop; the refresh loop writes it holding the token lock; start() writes it
\* without the lock, when neither loop has been started and no case worker
\* exists; a get_token() returns a value the token had during the call.
C31_TokenWritesSafe ==
    /\ [][ TokenWriteStep =>
              \/ refPc = "assign" /\ refPc' # refPc /\ mainPc' = mainPc
                    /\ token_lock = -1
              \/ mainPc = "start_exchange" /\ mainPc' # mainPc /\ refPc' \in {"idle", "loop"}
                    /\ token_lock = 0
                    /\ capPc = "idle" /\ refPc = "idle" /\ casePc = <<>>
         ]_vars
    /\ ReturnsOldOrNew

\* C31 (stated as claimed; refuted by the assignment in start()): every write
\* of the token, by start() or by the refresh loop, is made holding the token
\* lock, and a get_token() returns a value the token had during the call.
C31_EveryTokenWriteLocked ==
    /\ [][ TokenWriteStep => token_lock # 0 ]_vars
    /\ ReturnsOldOrNew

\* C31 witness: the token was replaced while the worker's get_token() was in
\* progress, and the call has returned the new token
C31_Witness ==
    /\ casePc = <<"fetch">>
    /\ Cardinality(token_during[1]) = 2
    /\ got[1] = current_token
    /\ token_lock = 0

\* C32 (stated as claimed; refuted by any payload with a document id): when
\* the pipeline has run and the save call has been made, whatever the save
\* reported, the step that accounts the attempt adds the pipeline's counts to
\* the run statistics: the download tasks, those that obtained content, and
\* those that used up their retries.
C32_DocumentStatsAccumulated ==
    [][ \A k \in DOMAIN casePc :
          (casePc[k] = "account" /\ casePc'[k] # "account") =>
             /\ stats'.total_documents = stats.total_documents + Len(document_ids)
             /\ stats'.documents_downloaded =
                   stats.documents_downloaded + Cardinality(Downloaded)
             /\ stats'.documents_failed_download =
                   stats.documents_failed_download + Cardinality(Exhausted)
      ]_vars

\* C33: a download task ends only by a fetch call (so it makes at least
\* one); every call it makes is within max_retries calls; the call that
\* returns content ends the task with that content; a call that returns no
\* content ends the task, with none, exactly when it was call number
\* max_retries; an ended task makes no further call.
C33_DownloadCallsBounded ==
    [][ \A i \in DOMAIN download : i \in DOMAIN download' =>
          /\ (download[i].pc = "running" /\ download'[i] # download[i]) =>
                /\ download_called'
                /\ download[i].tries < max_retries
                /\ download'[i].pc = "running" =>
                      /\ download'[i].tries = download[i].tries + 1
                      /\ download'[i].tries < max_retries
                      /\ download'[i].content = None
                /\ (download'[i].pc = "done" /\ download'[i].content = None) =>
                      download[i].tries + 1 = max_retries
          /\ (download[i].pc # "done" /\ download'[i].pc = "done") =>
                download[i].pc = "running"
          /\ download[i].pc = "done" => download'[i] = download[i]
      ]_vars

\* C33 witness: with two calls allowed, a task has ended without content
\* while the pipeline still waits for the other task
C33_Witness ==
    /\ max_retries = 2
    /\ docPc = "download"
    /\ download_called
    /\ \E i \in DOMAIN download : download[i].pc = "done" /\ download[i].content = None
    /\ \E i \in DOMAIN download : download[i].pc = "done" /\ download[i].content # None

\* the tasks that ended Skipped (the existence check found the case), and
\* those that ended Failed (a task that made an attempt can end no other way,
\* the success count of line 186 being out of reach)
EndedSkipped == {k \in DOMAIN casePc : casePc[k] = "done" /\ calls[k].present > 0}
EndedFailed  == {k \in DOMAIN casePc : casePc[k] = "done" /\ calls[k].present = 0
                                         /\ calls[k].token > 0}

\* C34 (stated as claimed; refuted by a worklist that repeats a case id): at
\* run end the failed-case list has one entry per case that ended Failed,
\* holding its id, its length is stats failed, and the id of no case that
\* ended Skipped (or Success) is in it.
C34_FailedListExact ==
    (RunEnded /\ casePc # <<>>) =>
        /\ Len(failed_cases) = stats.failed
        /\ Len(failed_cases) = Cardinality(EndedFailed)
        /\ \A k \in EndedFailed : case_ids[k] \in Range(failed_cases)
        /\ \A id \in Range(failed_cases) : \E k \in EndedFailed : case_ids[k] = id
        /\ \A k \in EndedSkipped : case_ids[k] \notin Range(failed_cases)

\* the same for worklists in which no case id is repeated
C34_FailedListExactDistinctIds ==
    (\A j, k \in DOMAIN case_ids : case_ids[j] = case_ids[k] => j = k)
        => C34_FailedListExact

EndedTasks == {k \in DOMAIN casePc : casePc[k] = "done"}

\* C37 (stated as claimed; refuted by max_retries = 0): a case worker makes
\* at most max_retries attempts, and in each attempt at most one token read,
\* one case fetch, one existence check, one pipeline run and one save call,
\* in that order; and every case worker that has returned has counted
\* exactly one outcome for its case: success, skipped or failed.
C37_WorkerTerminatesWithOneOutcome ==
    /\ \A k \in DOMAIN casePc :
          /\ attempt[k] >= 0
          /\ casePc[k] \notin {"queued", "done"} => attempt[k] < max_retries
          /\ calls[k].token <= max_retries
          /\ casePc[k] \notin {"queued", "done"} => calls[k].token <= attempt[k] + 1
          /\ calls[k].fetch <= calls[k].token
          /\ calls[k].exists <= calls[k].fetch
          /\ calls[k].process <= calls[k].exists
          /\ calls[k].save <= calls[k].process
    /\ stats.success + stats.failed + stats.skipped = Cardinality(EndedTasks)

====
